---- MODULE Spec2Model ----
(***************************************************************************)
(* Model of database.go: a DB_Session whose handleReconnect goroutine      *)
(* (the Supervisor) opens a pgxpool pool, starts a health-check goroutine  *)
(* (the Monitor) per successful connect, and whose callers run             *)
(* GetConnection and Close concurrently with both.                         *)
(*                                                                         *)
(* Every goroutine is a program counter named after the source line it is  *)
(* about to execute; one action is one statement that touches shared state *)
(* (session.isReady, session.pool, the two channels, the pool adapter).    *)
(* The fields isReady and pool are accessed without synchronisation; the   *)
(* model interleaves every read and write of them.                         *)
(*                                                                         *)
(* The pool adapter (pgxpool) is an external collaborator: open, ping and  *)
(* acquire on an open pool succeed or fail nondeterministically (failures  *)
(* are drawn from a budget of MaxFail), ping and acquire on a closed pool  *)
(* fail, and Pool.Close is idempotent. Callers are taken to hand borrowed  *)
(* connections back, so Pool.Close does not block for ever.                *)
(*                                                                         *)
(* Channels follow the Go runtime: a select whose cases are all blocked    *)
(* parks the goroutine and the first send or close wakes it with that      *)
(* case; a select that finds several cases ready picks any of them; a      *)
(* send on, or a second close of, a closed channel panics; a close makes   *)
(* the senders blocked on the channel runnable and returns, and each such  *)
(* sender panics when it next runs; an unrecovered panic ends the process  *)
(* (panicked # "no": no further step).                                     *)
(*                                                                         *)
(* While done is open every pool after the first costs one adapter         *)
(* failure, so MaxPools >= MaxFail + 1 keeps the cap on opened pools from  *)
(* stopping the Supervisor before shutdown.                                *)
(***************************************************************************)
EXTENDS Integers, FiniteSets, Sequences, TLC

\* params.MaxConnectAttempts as configured (declared at line 25, read nowhere)
MaxConnectAttempts == 1

\* ---- bounds ----
NumCallers == 2
MaxFail == 2
MaxPools == 3

Callers == 1..NumCallers
Handles == 1..MaxPools
NoPool == 0

VARIABLES
    isReady,          \* session.isReady
    pool,             \* session.pool: NoPool (nil) or a handle
    done,             \* session.done: "open" or "closed"
    notifyConnClose,  \* session.notifyConnClose: "open" or "closed"
    opened,           \* number of handles pgxpool.NewWithConfig has returned
    poolClosed,       \* handles on which Pool.Close has been called
    spc,              \* Supervisor (handleReconnect goroutine) position
    mpc,              \* Monitor goroutines, one per handle that got one
    cpc,              \* callers' positions
    cres,             \* each caller's latest call: <<operation, result>>
    panicked,         \* "no", or the runtime panic that ended the process
    fails,            \* adapter failures on open pools so far (budget)
    hist              \* history of the run, read by the properties only

vars == <<isReady, pool, done, notifyConnClose, opened, poolClosed, spc, mpc,
          cpc, cres, panicked, fails, hist>>

\* the process is alive: no goroutine has panicked
Running == panicked = "no"

\* ---- the pool adapter ----
\* outcomes NewWithConfig can have: a fresh handle, or an error
OpenOutcomes == (IF opened < MaxPools THEN {"ok"} ELSE {})
                   \cup (IF fails < MaxFail THEN {"err"} ELSE {})

\* outcomes of Pool.Ping / Pool.Acquire on handle h
CallOutcomes(h) ==
    IF h \in poolClosed THEN {"err"}
    ELSE {"ok"} \cup (IF fails < MaxFail THEN {"err"} ELSE {})

\* the budget after an adapter call on h with outcome r
Charged(h, r) == IF r = "err" /\ h \notin poolClosed THEN fails + 1 ELSE fails

\* a handle eligible for acquisition: current, health-checked, open, ready
Live(h) == /\ isReady
           /\ pool = h
           /\ h \in hist.checked
           /\ h \notin poolClosed

\* ---- history (hist) ----
\*   attempts    connect attempts started (calls of connect, line 65)
\*   backoffs    reconnectDelay waits the Supervisor completed (line 73)
\*   openFails   NewWithConfig calls that returned an error
\*   lastConnect outcome of the most recent connect attempt:
\*               "none", "running", "failed" or "ok"
\*   pingFailed  a Monitor ping has failed since the last successful connect
\*   checked     handles whose initial ping (line 94) succeeded
\*   closeOK     some Close call has returned nil
\*   cleared     a Close call has run line 162 since the last successful connect
\*   after[c]    c's latest call started after shutdown: for GetConnection,
\*               after done was closed; for Close, after a Close returned nil
\*   downInConnect  done was closed while the Supervisor was inside a
\*               connect attempt or its backoff wait
\*   downAtCall[c]  c's latest call is a GetConnection issued while the
\*               session was not ready and done was open

\* ---- construction: NewDB ----
Init ==
    /\ isReady = FALSE
    /\ pool = NoPool
    /\ done = "open"
    /\ notifyConnClose = "open"
    /\ opened = 0
    /\ poolClosed = {}
    /\ spc = "L62"
    /\ mpc = [h \in Handles |-> "none"]
    /\ cpc = [c \in Callers |-> "idle"]
    /\ cres = [c \in Callers |-> <<"none", "none">>]
    /\ panicked = "no"
    /\ fails = 0
    /\ hist = [attempts |-> 0, backoffs |-> 0, openFails |-> 0,
               lastConnect |-> "none", pingFailed |-> FALSE,
               checked |-> {}, closeOK |-> FALSE, cleared |-> FALSE,
               after |-> [c \in Callers |-> FALSE],
               downInConnect |-> FALSE,
               downAtCall |-> [c \in Callers |-> FALSE]]

\* ---- the Supervisor: handleReconnect and connect ----

\* handleReconnect with line 62 writing true instead of false
handleReconnect_L62_SetsReady ==
    /\ Running /\ spc = "L62"
    /\ isReady' = TRUE
    /\ spc' = "L88"
    /\ hist' = [hist EXCEPT !.attempts = @ + 1, !.lastConnect = "running"]
    /\ UNCHANGED <<pool, done, notifyConnClose, opened, poolClosed, mpc, cpc,
                   cres, panicked, fails>>

\* handleReconnect without line 62: a new attempt starts with readiness as it was
handleReconnect_L62_NoClear ==
    /\ Running /\ spc = "L62"
    /\ spc' = "L88"
    /\ hist' = [hist EXCEPT !.attempts = @ + 1, !.lastConnect = "running"]
    /\ UNCHANGED <<isReady, pool, done, notifyConnClose, opened, poolClosed,
                   mpc, cpc, cres, panicked, fails>>

\* line 62-65: clear readiness, start a connect attempt
handleReconnect_L62 ==
    /\ Running /\ spc = "L62"
    /\ isReady' = FALSE
    /\ spc' = "L88"
    /\ hist' = [hist EXCEPT !.attempts = @ + 1, !.lastConnect = "running"]
    /\ UNCHANGED <<pool, done, notifyConnClose, opened, poolClosed, mpc, cpc,
                   cres, panicked, fails>>

\* line 88-91: pgxpool.NewWithConfig; an error ends the attempt
connect_L88 ==
    /\ Running /\ spc = "L88"
    /\ \E r \in OpenOutcomes :
         IF r = "ok"
         THEN /\ opened' = opened + 1
              /\ spc' = "L92"
              /\ UNCHANGED <<fails, hist>>
         ELSE /\ fails' = fails + 1
              /\ spc' = "L70"
              /\ hist' = [hist EXCEPT !.openFails = @ + 1,
                                      !.lastConnect = "failed"]
              /\ UNCHANGED opened
    /\ UNCHANGED <<isReady, pool, done, notifyConnClose, poolClosed, mpc, cpc,
                   cres, panicked>>

\* line 92: session.pool = pool (the handle NewWithConfig just returned)
connect_L92 ==
    /\ Running /\ spc = "L92"
    /\ pool' = opened
    /\ spc' = "L94"
    /\ UNCHANGED <<isReady, done, notifyConnClose, opened, poolClosed, mpc, cpc,
                   cres, panicked, fails, hist>>

\* line 94-97: the initial ping; an error ends the attempt
connect_L94 ==
    /\ Running /\ spc = "L94"
    /\ \E r \in CallOutcomes(pool) :
         /\ fails' = Charged(pool, r)
         /\ IF r = "ok"
            THEN /\ spc' = "L99"
                 /\ hist' = [hist EXCEPT !.checked = @ \cup {pool}]
            ELSE /\ spc' = "L70"
                 /\ hist' = [hist EXCEPT !.lastConnect = "failed"]
    /\ UNCHANGED <<isReady, pool, done, notifyConnClose, opened, poolClosed,
                   mpc, cpc, cres, panicked>>

\* line 99-110: go func(): start the Monitor goroutine
connect_L99 ==
    /\ Running /\ spc = "L99"
    /\ mpc' = [mpc EXCEPT ![pool] = "L103"]
    /\ spc' = "L112"
    /\ UNCHANGED <<isReady, pool, done, notifyConnClose, opened, poolClosed,
                   cpc, cres, panicked, fails, hist>>

\* line 112-116: session.isReady = true; connect returns nil
connect_L112 ==
    /\ Running /\ spc = "L112"
    /\ isReady' = TRUE
    /\ spc' = "L78"
    /\ hist' = [hist EXCEPT !.lastConnect = "ok", !.pingFailed = FALSE,
                            !.cleared = FALSE]
    /\ UNCHANGED <<pool, done, notifyConnClose, opened, poolClosed, mpc, cpc,
                   cres, panicked, fails>>

\* handleReconnect giving up once params.MaxConnectAttempts attempts have failed
handleReconnect_L70_MaxAttempts ==
    /\ Running /\ spc = "L70"
    /\ IF done = "closed" \/ hist.attempts >= MaxConnectAttempts
       THEN /\ spc' = "exit"
            /\ UNCHANGED hist
       ELSE /\ spc' = "L62"
            /\ hist' = [hist EXCEPT !.backoffs = @ + 1]
    /\ UNCHANGED <<isReady, pool, done, notifyConnClose, opened, poolClosed,
                   mpc, cpc, cres, panicked, fails>>

\* handleReconnect retrying at once after a failed connect, without the select
handleReconnect_L70_NoWait ==
    /\ Running /\ spc = "L70"
    /\ spc' = "L62"
    /\ UNCHANGED <<isReady, pool, done, notifyConnClose, opened, poolClosed,
                   mpc, cpc, cres, panicked, fails, hist>>

\* line 70-75: select { <-done: return; <-time.After(reconnectDelay) }.
\* A closed done is ready at once; the timer fires only while done is open.
handleReconnect_L70 ==
    /\ Running /\ spc = "L70"
    /\ IF done = "closed"
       THEN /\ spc' = "exit"
            /\ UNCHANGED hist
       ELSE /\ spc' = "L62"
            /\ hist' = [hist EXCEPT !.backoffs = @ + 1]
    /\ UNCHANGED <<isReady, pool, done, notifyConnClose, opened, poolClosed,
                   mpc, cpc, cres, panicked, fails>>

\* Monitors in the send of line 106: blocked while notifyConnClose is open
Senders == {m \in Handles : mpc[m] = "S106"}

\* the cases of the select of line 78 that are ready on entry
Ready78 == (IF done = "closed" THEN {"done"} ELSE {})
              \cup (IF notifyConnClose = "closed" \/ Senders # {}
                    THEN {"notify"} ELSE {})

\* line 78-83: select { <-done: return; <-notifyConnClose }. With several
\* cases ready Go picks one at random; with none the Supervisor blocks (B78)
\* and is woken by the first close or send.
handleReconnect_L78 ==
    /\ Running /\ spc = "L78"
    /\ IF Ready78 = {}
       THEN /\ spc' = "B78"
            /\ UNCHANGED mpc
       ELSE \E k \in Ready78 :
              IF k = "done"
              THEN /\ spc' = "exit"
                   /\ UNCHANGED mpc
              ELSE /\ spc' = "L62"
                   /\ IF notifyConnClose = "open"
                      THEN \E m \in Senders : mpc' = [mpc EXCEPT ![m] = "exit"]
                      ELSE UNCHANGED mpc
    /\ UNCHANGED <<isReady, pool, done, notifyConnClose, opened, poolClosed,
                   cpc, cres, panicked, fails, hist>>

\* ---- the Monitor goroutine of connect ----

\* the Monitor clearing session.isReady itself when its ping fails
Monitor_L103_ClearsReady(m) ==
    /\ Running /\ mpc[m] = "L103"
    /\ \E r \in CallOutcomes(pool) :
         /\ fails' = Charged(pool, r)
         /\ IF r = "ok"
            THEN UNCHANGED <<mpc, hist, isReady>>
            ELSE /\ mpc' = [mpc EXCEPT ![m] = "L106"]
                 /\ isReady' = FALSE
                 /\ hist' = [hist EXCEPT !.pingFailed = TRUE]
    /\ UNCHANGED <<pool, done, notifyConnClose, opened, poolClosed, spc, cpc,
                   cres, panicked>>

\* line 103-105: a tick, then session.ping() on whatever session.pool is now
Monitor_L103(m) ==
    /\ Running /\ mpc[m] = "L103"
    /\ \E r \in CallOutcomes(pool) :
         /\ fails' = Charged(pool, r)
         /\ IF r = "ok"
            THEN UNCHANGED <<mpc, hist>>
            ELSE /\ mpc' = [mpc EXCEPT ![m] = "L106"]
                 /\ hist' = [hist EXCEPT !.pingFailed = TRUE]
    /\ UNCHANGED <<isReady, pool, done, notifyConnClose, opened, poolClosed,
                   spc, cpc, cres, panicked>>

\* line 106-107: session.notifyConnClose <- true. A send on a closed channel
\* panics; a receiver blocked in the select of line 78 takes the value at
\* once; otherwise the Monitor blocks in the send.
Monitor_L106(m) ==
    /\ Running /\ mpc[m] = "L106"
    /\ IF notifyConnClose = "closed"
       THEN /\ panicked' = "send on closed channel"
            /\ UNCHANGED <<mpc, spc>>
       ELSE IF spc = "B78"
       THEN /\ mpc' = [mpc EXCEPT ![m] = "exit"]
            /\ spc' = "L62"
            /\ UNCHANGED panicked
       ELSE /\ mpc' = [mpc EXCEPT ![m] = "S106"]
            /\ UNCHANGED <<spc, panicked>>
    /\ UNCHANGED <<isReady, pool, done, notifyConnClose, opened, poolClosed,
                   cpc, cres, fails, hist>>

\* line 106, resumed: a Monitor that was blocked in the send when
\* notifyConnClose was closed runs again and panics inside the send.
Monitor_S106(m) ==
    /\ Running /\ mpc[m] = "S106"
    /\ notifyConnClose = "closed"
    /\ panicked' = "send on closed channel"
    /\ UNCHANGED <<isReady, pool, done, notifyConnClose, opened, poolClosed,
                   spc, mpc, cpc, cres, fails, hist>>

\* ---- callers: GetConnection / getConnection ----

\* a caller invokes GetConnection (line 127)
GetConnection_call(c) ==
    /\ Running /\ cpc[c] = "idle"
    /\ cpc' = [cpc EXCEPT ![c] = "L144"]
    /\ cres' = [cres EXCEPT ![c] = <<"GetConnection", "none">>]
    /\ hist' = [hist EXCEPT !.after[c] = (done = "closed"),
                            !.downAtCall[c] = (~isReady /\ done = "open")]
    /\ UNCHANGED <<isReady, pool, done, notifyConnClose, opened, poolClosed,
                   spc, mpc, panicked, fails>>

\* GetConnection returning getConnection's error to its caller at once
GetConnectionOnErr_FailFast(c, err) ==
    /\ cpc' = [cpc EXCEPT ![c] = "idle"]
    /\ cres' = [cres EXCEPT ![c][2] = err]

\* line 130-132: getConnection returned err; GetConnection goes to its select
GetConnectionOnErr(c, err) ==
    /\ cpc' = [cpc EXCEPT ![c] = "L132"]
    /\ UNCHANGED cres

\* line 144-146: the readiness check of getConnection
getConnection_L144(c) ==
    /\ Running /\ cpc[c] = "L144"
    /\ IF ~isReady
       THEN GetConnectionOnErr(c, "errAlreadyClosed")
       ELSE /\ cpc' = [cpc EXCEPT ![c] = "L147"]
            /\ UNCHANGED cres
    /\ UNCHANGED <<isReady, pool, done, notifyConnClose, opened, poolClosed,
                   spc, mpc, panicked, fails, hist>>

\* line 139 / 151: the connection borrowed from handle h is returned to the
\* caller; "conn" if h was the live handle at the borrow, else "staleConn"
Borrowed(h) == IF Live(h) THEN "conn" ELSE "staleConn"

\* line 147-151: session.pool.Acquire on whatever session.pool is now
\* A nil session.pool makes the call panic (nil pointer dereference).
getConnection_L147(c) ==
    /\ Running /\ cpc[c] = "L147"
    /\ IF pool = NoPool
       THEN /\ panicked' = "nil pointer dereference"
            /\ UNCHANGED <<fails, cpc, cres>>
       ELSE /\ \E r \in CallOutcomes(pool) :
                 /\ fails' = Charged(pool, r)
                 /\ IF r = "ok"
                    THEN /\ cpc' = [cpc EXCEPT ![c] = "idle"]
                         /\ cres' = [cres EXCEPT ![c][2] = Borrowed(pool)]
                    ELSE GetConnectionOnErr(c, "errAcquire")
            /\ UNCHANGED panicked
    /\ UNCHANGED <<isReady, pool, done, notifyConnClose, opened, poolClosed,
                   spc, mpc, hist>>

\* line 132-137: select { <-done: return errShutdown; <-time.After }. A
\* closed done is ready at once; the timer fires only while done is open.
GetConnection_L132(c) ==
    /\ Running /\ cpc[c] = "L132"
    /\ IF done = "closed"
       THEN /\ cpc' = [cpc EXCEPT ![c] = "idle"]
            /\ cres' = [cres EXCEPT ![c][2] = "errShutdown"]
       ELSE /\ cpc' = [cpc EXCEPT ![c] = "L144"]
            /\ UNCHANGED cres
    /\ UNCHANGED <<isReady, pool, done, notifyConnClose, opened, poolClosed,
                   spc, mpc, panicked, fails, hist>>

\* ---- callers: Close ----

\* the Supervisor is in its Connecting state: inside connect (lines 88-116)
\* or in the backoff select of line 70
Connecting == spc \in {"L88", "L92", "L94", "L99", "L112", "L70"}

\* a caller invokes Close (line 154)
Close_call(c) ==
    /\ Running /\ cpc[c] = "idle"
    /\ cpc' = [cpc EXCEPT ![c] = "L156"]
    /\ cres' = [cres EXCEPT ![c] = <<"Close", "none">>]
    /\ hist' = [hist EXCEPT !.after[c] = hist.closeOK,
                            !.downAtCall[c] = FALSE]
    /\ UNCHANGED <<isReady, pool, done, notifyConnClose, opened, poolClosed,
                   spc, mpc, panicked, fails>>

\* Close without the readiness test of line 156: it always shuts down
Close_L156_NoGuard(c) ==
    /\ Running /\ cpc[c] = "L156"
    /\ cpc' = [cpc EXCEPT ![c] = "L159"]
    /\ UNCHANGED <<isReady, pool, done, notifyConnClose, opened, poolClosed,
                   spc, mpc, cres, panicked, fails, hist>>

\* line 156-158: if !session.isReady { return errAlreadyClosed }
Close_L156(c) ==
    /\ Running /\ cpc[c] = "L156"
    /\ IF ~isReady
       THEN /\ cpc' = [cpc EXCEPT ![c] = "idle"]
            /\ cres' = [cres EXCEPT ![c][2] = "errAlreadyClosed"]
       ELSE /\ cpc' = [cpc EXCEPT ![c] = "L159"]
            /\ UNCHANGED cres
    /\ UNCHANGED <<isReady, pool, done, notifyConnClose, opened, poolClosed,
                   spc, mpc, panicked, fails, hist>>

\* line 159: session.pool.Close() (idempotent in pgxpool). A nil
\* session.pool makes the call panic (nil pointer dereference).
Close_L159(c) ==
    /\ Running /\ cpc[c] = "L159"
    /\ IF pool = NoPool
       THEN /\ panicked' = "nil pointer dereference"
            /\ UNCHANGED <<poolClosed, cpc>>
       ELSE /\ poolClosed' = poolClosed \cup {pool}
            /\ cpc' = [cpc EXCEPT ![c] = "L160"]
            /\ UNCHANGED panicked
    /\ UNCHANGED <<isReady, pool, done, notifyConnClose, opened, spc, mpc,
                   cres, fails, hist>>

\* line 160: close(session.done). Closing a closed channel panics; the close
\* wakes a Supervisor blocked in the select of line 78, which returns.
Close_L160(c) ==
    /\ Running /\ cpc[c] = "L160"
    /\ IF done = "closed"
       THEN /\ panicked' = "close of closed channel"
            /\ UNCHANGED <<done, spc, cpc, hist>>
       ELSE /\ done' = "closed"
            /\ spc' = IF spc = "B78" THEN "exit" ELSE spc
            /\ cpc' = [cpc EXCEPT ![c] = "L161"]
            /\ hist' = [hist EXCEPT !.downInConnect = Connecting]
            /\ UNCHANGED panicked
    /\ UNCHANGED <<isReady, pool, notifyConnClose, opened, poolClosed, mpc,
                   cres, fails>>

\* line 161: close(session.notifyConnClose). Closing a closed channel panics.
\* Otherwise the close returns normally: it wakes a Supervisor blocked in the
\* select of line 78 (which loops to line 62) and makes every Monitor blocked
\* in the send of line 106 runnable; such a Monitor panics when it next runs
\* (Monitor_S106), and until then the closer and everyone else keep running.
Close_L161(c) ==
    /\ Running /\ cpc[c] = "L161"
    /\ IF notifyConnClose = "closed"
       THEN /\ panicked' = "close of closed channel"
            /\ UNCHANGED <<notifyConnClose, spc, cpc>>
       ELSE /\ notifyConnClose' = "closed"
            /\ spc' = IF spc = "B78" THEN "L62" ELSE spc
            /\ cpc' = [cpc EXCEPT ![c] = "L162"]
            /\ UNCHANGED panicked
    /\ UNCHANGED <<isReady, pool, done, opened, poolClosed, mpc, cres, fails,
                   hist>>

\* line 162-163: session.isReady = false; return nil
Close_L162(c) ==
    /\ Running /\ cpc[c] = "L162"
    /\ isReady' = FALSE
    /\ cpc' = [cpc EXCEPT ![c] = "idle"]
    /\ cres' = [cres EXCEPT ![c][2] = "nil"]
    /\ hist' = [hist EXCEPT !.closeOK = TRUE, !.cleared = TRUE]
    /\ UNCHANGED <<pool, done, notifyConnClose, opened, poolClosed, spc, mpc,
                   panicked, fails>>

\* ---- the specification ----

Supervisor ==
    \/ handleReconnect_L62
    \/ connect_L88
    \/ connect_L92
    \/ connect_L94
    \/ connect_L99
    \/ connect_L112
    \/ handleReconnect_L70
    \/ handleReconnect_L78

Monitor ==
    \E m \in Handles : Monitor_L103(m) \/ Monitor_L106(m) \/ Monitor_S106(m)

GetConnection(c) ==
    \/ getConnection_L144(c)
    \/ getConnection_L147(c)
    \/ GetConnection_L132(c)

Close(c) ==
    \/ Close_L156(c)
    \/ Close_L159(c)
    \/ Close_L160(c)
    \/ Close_L161(c)
    \/ Close_L162(c)

Next ==
    \/ Supervisor
    \/ Monitor
    \/ \E c \in Callers : GetConnection_call(c)
    \/ \E c \in Callers : GetConnection(c)
    \/ \E c \in Callers : Close_call(c)
    \/ \E c \in Callers : Close(c)

Spec == Init /\ [][Next]_vars

\* Fairness: the Go scheduler runs every runnable goroutine and timers fire,
\* so the Supervisor and every caller inside a call keep taking steps. Whether
\* and when a caller starts a call is up to the caller: no fairness there.
Fairness ==
    /\ WF_vars(Supervisor)
    /\ \A c \in Callers : WF_vars(GetConnection(c)) /\ WF_vars(Close(c))

LiveSpec == Spec /\ Fairness

\* ---- shapes of states ----

TypeOK ==
    /\ isReady \in BOOLEAN
    /\ pool \in {NoPool} \cup Handles
    /\ done \in {"open", "closed"}
    /\ notifyConnClose \in {"open", "closed"}
    /\ opened \in 0..MaxPools
    /\ poolClosed \subseteq Handles
    /\ spc \in {"L62", "L88", "L92", "L94", "L99", "L112", "L70", "L78", "B78",
                "exit"}
    /\ mpc \in [Handles -> {"none", "L103", "L106", "S106", "exit"}]
    /\ cpc \in [Callers -> {"idle", "L144", "L147", "L132", "L156", "L159",
                            "L160", "L161", "L162"}]
    /\ fails \in 0..MaxFail

InClose(c) == cpc[c] \in {"L159", "L160", "L161", "L162"}
GotConn(c) == cres[c][1] = "GetConnection" /\ cres[c][2] \in {"conn", "staleConn"}

\* ---- C1 ----
\* C1: a GetConnection call that starts after shutdown (done closed by Close)
\* never returns a connection, and in its select it never waits for the
\* backoff timer (done is closed, so the done case is taken).
C1_AcquireAfterCloseIsShutdown ==
    \A c \in Callers :
        (hist.after[c] /\ cres[c][1] = "GetConnection") =>
            /\ ~GotConn(c)
            /\ cpc[c] = "L132" => done = "closed"

\* ---- C2 ----
\* C2: once done is closed, no step opens a new pool handle.
C2_NoOpenAfterShutdown == [][done = "closed" => opened' = opened]_vars

\* ---- C3 ----
\* C3: every connection GetConnection returned was borrowed from the handle
\* that was live (current, health-checked, ready, not closed) at the borrow.
C3_BorrowFromLiveHandle ==
    \A c \in Callers : cres[c] # <<"GetConnection", "staleConn">>

\* ---- C6 ----
\* C6: a Close call that starts after a Close has returned nil does not get
\* past the readiness test: it returns errAlreadyClosed, never nil.
C6_SecondCloseAlreadyClosed ==
    \A c \in Callers :
        (hist.after[c] /\ cres[c][1] = "Close") =>
            /\ ~InClose(c)
            /\ cres[c][2] \in {"none", "errAlreadyClosed"}

\* ---- C7 ----
\* C7: of the Close calls on a session at most one returns nil, no call is
\* shutting the session down once another has returned nil, and done is never
\* closed a second time.
C7_CloseOnce ==
    /\ Cardinality({c \in Callers : cres[c] = <<"Close", "nil">>}) <= 1
    /\ \A c \in Callers : InClose(c) =>
          \A d \in Callers \ {c} : cres[d] # <<"Close", "nil">>
    /\ panicked # "close of closed channel"

\* ---- C8 ----
\* C8: the only error GetConnection returns is errShutdown, and only when
\* done is closed.
C8_OnlyShutdownError ==
    \A c \in Callers :
        (cres[c][1] = "GetConnection" /\ cres[c][2] # "none") =>
            \/ GotConn(c)
            \/ cres[c][2] = "errShutdown" /\ done = "closed"

\* C8 witness: a GetConnection call has returned errShutdown
C8_Witness ==
    \E c \in Callers : cres[c] = <<"GetConnection", "errShutdown">>

\* ---- C4 ----
\* C4 (as claimed): isReady is true exactly when the most recent connect
\* attempt succeeded and no Monitor ping has failed since.
C4_ReadyIffHealthy ==
    isReady <=> (hist.lastConnect = "ok" /\ ~hist.pingFailed)

\* C4 (amended): isReady is true exactly when the most recent connect attempt
\* succeeded, the Supervisor has not started another attempt, and no Close
\* call has cleared the flag since; a failed Monitor ping alone leaves it true.
C4_ReadyIffConnectedNotCleared ==
    isReady <=> (hist.lastConnect = "ok" /\ ~hist.cleared)

\* C4 witness: a Monitor ping has failed and isReady is still true
C4_Witness == isReady /\ hist.pingFailed /\ \E m \in Handles : mpc[m] = "S106"

\* ---- C5 ----
\* a handle a caller can still borrow from: it is session.pool, it is open,
\* and readiness is set or a caller is already past the readiness check
Acquirable(h) ==
    /\ pool = h
    /\ h \notin poolClosed
    /\ isReady \/ \E c \in Callers : cpc[c] = "L147"

\* C5: at most one handle is live, and while the Supervisor is opening a new
\* pool readiness is cleared and no handle can be borrowed from.
C5_OneLiveHandle ==
    /\ Cardinality({h \in Handles : Live(h)}) <= 1
    /\ spc = "L88" => (~isReady /\ \A h \in Handles : ~Acquirable(h))

\* ---- C10 ----
\* C10: while every open so far has failed the session is not ready and each
\* failed attempt was followed by one backoff wait; when the first opened pool
\* makes the session ready, that was attempt openFails + 1.
C10_ReadyAfterNFailures ==
    /\ opened = 0 =>
         /\ ~isReady
         /\ spc = "L88" => /\ hist.attempts = hist.openFails + 1
                           /\ hist.backoffs = hist.openFails
         /\ spc = "L70" => /\ hist.attempts = hist.openFails
                           /\ hist.backoffs = hist.openFails - 1
    /\ (isReady /\ opened = 1) =>
         /\ hist.attempts = hist.openFails + 1
         /\ hist.backoffs = hist.openFails

\* C10 witness: ready on the first opened pool after MaxFail failed opens
C10_Witness == isReady /\ opened = 1 /\ hist.openFails = MaxFail

\* ---- C9 ----
InGetConnection(c) == cpc[c] \in {"L144", "L147", "L132"}

\* C9: a GetConnection call issued while the session is not ready and done
\* is open returns no error while done is open, and (the adapter failing only
\* finitely often) it eventually returns a connection borrowed from a handle
\* that was live (current, health-checked, ready, open) at the borrow, unless
\* done is closed first.
C9_BlockedAcquireReturns ==
    /\ [](\A c \in Callers :
            (hist.downAtCall[c] /\ cres[c][1] = "GetConnection"
                /\ done = "open") =>
                cres[c][2] \in {"none", "conn", "staleConn"})
    /\ \A c \in Callers :
         (InGetConnection(c) /\ hist.downAtCall[c] /\ done = "open")
            ~> (cres[c] = <<"GetConnection", "conn">> \/ done = "closed")

\* ---- C11 ----
Monitors == {m \in Handles : mpc[m] \in {"L103", "L106", "S106"}}

\* C11: after a Close call has returned nil the shutdown runs to completion:
\* the run does not end (the process is not ended by a panic) while the
\* Supervisor or a Monitor has not terminated or the pool is not closed.
C11_ShutdownTerminates ==
    (hist.closeOK /\ ~Running) =>
        /\ spc = "exit"
        /\ Monitors = {}
        /\ pool \in poolClosed

\* ---- C12 ----
\* C12: once a Close call has returned nil, isReady is false.
C12_ClosedStaysNotReady == hist.closeOK => ~isReady

\* ---- C13 ----
\* C13: a Close call that finds the session not ready returns
\* errAlreadyClosed and changes nothing: flag, pool handle, both channels and
\* the positions of the Supervisor and the Monitors stay as they were.
C13_CloseNotReadyNoEffect ==
    [][\A c \in Callers :
         (cpc[c] = "L156" /\ ~isReady /\ cpc'[c] # "L156") =>
             /\ cpc'[c] = "idle"
             /\ cres'[c] = <<"Close", "errAlreadyClosed">>
             /\ UNCHANGED <<isReady, pool, done, notifyConnClose, opened,
                            poolClosed, spc, mpc, panicked>>]_vars

\* C13 witness: a Close call made between a failed connect attempt and the
\* next one has returned errAlreadyClosed, and nothing is shut down
C13_Witness ==
    \E c \in Callers :
        /\ cpc[c] = "idle" /\ cres[c] = <<"Close", "errAlreadyClosed">>
        /\ hist.lastConnect = "failed" /\ spc = "L70"
        /\ done = "open" /\ notifyConnClose = "open" /\ poolClosed = {}

\* ---- C14 ----
\* C14: once shutdown has been signalled (done closed) while the Supervisor
\* was in its Connecting state, the Supervisor starts no further connect
\* attempt.
C14_ShutdownWhileConnecting ==
    [][hist.downInConnect => hist.attempts' = hist.attempts]_vars

\* ---- C15 ----
\* C15: at most one Monitor goroutine is running.
C15_OneMonitor == Cardinality(Monitors) <= 1

\* ---- C17 ----
\* a step taken by a Monitor goroutine (its ping, its send, or the send
\* resumed after the channel was closed; a panicking send included) / by
\* caller c (any statement of its GetConnection or Close call, a panicking
\* close or nil dereference included)
MonitorStep == Monitor
CallerStep(c) ==
    \/ GetConnection_call(c)
    \/ GetConnection(c)
    \/ Close_call(c)
    \/ Close(c)

\* C17 (as claimed): a step of a caller (GetConnection or Close) or of a
\* Monitor leaves session.isReady and session.pool unchanged and closes no pool.
C17_OnlySupervisorWrites ==
    [][(MonitorStep \/ \E c \in Callers : CallerStep(c)) =>
          UNCHANGED <<isReady, pool, poolClosed>>]_vars

\* C17 (amended): Monitor and GetConnection steps leave isReady and pool
\* unchanged and close no pool; no caller step assigns session.pool; of a
\* Close call only line 159 closes the pool and only line 162 writes isReady
\* (to false).
C17_MonitorAndGatewayOnlyRead ==
    [][/\ MonitorStep => UNCHANGED <<isReady, pool, poolClosed>>
       /\ \A c \in Callers : CallerStep(c) =>
            /\ pool' = pool
            /\ cpc[c] # "L159" => poolClosed' = poolClosed
            /\ cpc[c] # "L162" => isReady' = isReady
            /\ cpc[c] = "L162" => ~isReady']_vars

\* C17 witness: a Monitor has taken steps and a Close call has closed the pool
C17_Witness ==
    /\ \E m \in Handles : mpc[m] = "S106"
    /\ \E c \in Callers : cpc[c] = "L160" /\ pool \in poolClosed

\* ---- C18 ----
\* C18: no goroutine panics on a channel operation: no send on the closed
\* notifyConnClose, no second close of done or notifyConnClose.
C18_NoChannelPanic ==
    panicked \notin {"send on closed channel", "close of closed channel"}

\* ---- C19 ----
\* C19: isReady implies session.pool is not nil, and no Acquire or Close is
\* called on a nil pool.
C19_ReadyHasPool ==
    /\ isReady => pool # NoPool
    /\ \A c \in Callers : cpc[c] \in {"L147", "L159"} => pool # NoPool
    /\ panicked # "nil pointer dereference"

\* C19 witness: a caller is about to Acquire and another about to close the pool
C19_Witness ==
    /\ \E c \in Callers : cpc[c] = "L147"
    /\ \E c \in Callers : cpc[c] = "L159"
    /\ isReady

\* ---- C20 ----
\* C20: every handle that was opened and not closed is session.pool, or the
\* handle NewWithConfig has just returned and line 92 is about to store.
C20_NoLeakedHandle ==
    \A h \in 1..opened :
        h \notin poolClosed => (h = pool \/ (h = opened /\ spc = "L92"))

\* ---- C16 ----
\* C16: the Supervisor returns only after done has been closed, however many
\* connect attempts have failed.
C16_FailuresNeverTerminal == spc = "exit" => done = "closed"

\* C16 witness: every attempt so far has failed, more attempts than
\* params.MaxConnectAttempts have been started, and the loop is still running
C16_Witness ==
    /\ opened = 0 /\ done = "open" /\ spc = "L88"
    /\ hist.openFails >= MaxConnectAttempts
    /\ hist.attempts > MaxConnectAttempts

====
